---------------------------- MODULE Spec2Model ----------------------------
(***************************************************************************)
(* TerranPix photo editor: the edit history (history, historyIndex), the   *)
(* transient hotspot and crop selections and the asynchronous edit         *)
(* requests of src/App.tsx, with the response classification of            *)
(* src/services/geminiService.ts and the prompt state of                   *)
(* src/components/AdjustmentPanel.tsx.                                     *)
(*                                                                         *)
(* One action per user event on the rendered page or per resolution of a   *)
(* service promise.  An event on a control that the page renders disabled  *)
(* (or does not render at all) never reaches its handler; the action       *)
(* records the attempt and changes nothing else.                           *)
(***************************************************************************)
EXTENDS Integers, Sequences, FiniteSets, TLC

(* ------------------------------ bounds -------------------------------- *)

\* File objects ever created in one run (uploads and edit results).
MaxFiles == 3
\* Service calls that may be pending at once before dispatch is cut off.
MaxInFlight == 2

(* --------------------------- program state ---------------------------- *)

VARIABLES
    history,              \* App.tsx:46  File[]
    historyIndex,         \* App.tsx:47
    prompt,               \* App.tsx:48  retouch instruction
    isLoading,            \* App.tsx:49
    error,                \* App.tsx:50
    editHotspot,          \* App.tsx:51  native-space point or null
    displayHotspot,       \* App.tsx:52  display-space point or null
    activeTab,            \* App.tsx:53
    crop,                 \* App.tsx:55  selection being dragged
    completedCrop,        \* App.tsx:56  selection after the drag ended
    isSideBySide,         \* App.tsx:59
    currentImageUrl,      \* App.tsx:65
    originalImageUrl,     \* App.tsx:66
    objectUrls,           \* object URLs created and not revoked
    selectedPresetPrompt, \* AdjustmentPanel.tsx:14
    customPrompt,         \* AdjustmentPanel.tsx:15
    inflight,             \* pending service promises with their closures
    nextFile,             \* identity of the next File object created
    discarded,            \* history: files that were after the cursor at a commit
    last,                 \* history: the last event and its outcome
    mark,                 \* history: the state before an undo or a reset, kept
                          \*   while only redo follows
    canvas                \* history: the canvas drawn by the step just taken

vars == <<history, historyIndex, prompt, isLoading, error, editHotspot,
          displayHotspot, activeTab, crop, completedCrop, isSideBySide,
          currentImageUrl, originalImageUrl, objectUrls,
          selectedPresetPrompt, customPrompt, inflight, nextFile,
          discarded, last, mark, canvas>>

(* ------------------------------ values -------------------------------- *)

\* `null` for File-valued expressions; File objects are 1, 2, ...
NoFile == 0

\* `null` / `undefined` for object-valued state.
Null == [null |-> TRUE]

Tabs == {"retouch", "adjust", "filters", "crop"}

\* Strings are sequences of characters.
Prompts == { <<>>, <<" ">>, <<"a", " ">> }

\* The one preset of the adjustment panel that the model keeps.
PresetPrompt == <<"b">>

NoError == [isNull |-> TRUE, why |-> "null"]

Err(why) == [isNull |-> FALSE, why |-> why]

Range(s) == { s[i] : i \in 1..Len(s) }

Min(a, b) == IF a < b THEN a ELSE b


\* A JavaScript `string | null`.
NullStr == [isNull |-> TRUE, s |-> <<>>]

Str(s) == [isNull |-> FALSE, s |-> s]

\* A JavaScript number: finite, NaN or Infinity.
Num(v) == [k |-> "num", v |-> v]

NaN == [k |-> "NaN", v |-> 0]

Infinity == [k |-> "Infinity", v |-> 0]

\* String.prototype.trim on the strings of the model.
RECURSIVE TrimLeft(_)
TrimLeft(s) == IF s # <<>> /\ Head(s) = " " THEN TrimLeft(Tail(s)) ELSE s

RECURSIVE TrimRight(_)
TrimRight(s) ==
    IF s # <<>> /\ s[Len(s)] = " " THEN TrimRight(SubSeq(s, 1, Len(s) - 1)) ELSE s

trim(s) == TrimRight(TrimLeft(s))

(* ------------------------- derived App values ------------------------- *)

\* history[historyIndex] ?? null
currentImage ==
    IF historyIndex >= 0 /\ historyIndex < Len(history)
    THEN history[historyIndex + 1] ELSE NoFile

\* history[0] ?? null
originalImage == IF Len(history) > 0 THEN history[1] ELSE NoFile

(* ------------------- object URLs of the two effects ------------------- *)

\* `null` for a URL-valued state.
NoUrl == [slot |-> "null", file |-> NoFile]

\* The string URL.createObjectURL(file) returns in an effect: one URL for each
\* run of each effect; a run is known by its effect and the file it ran for.
ObjectUrl(slot, file) == [slot |-> slot, file |-> file]

\* An effect that returns no cleanup function.
useEffectUrl_NoCleanup(slot, urls, url, old, new) ==
    IF new = old THEN [urls |-> urls, url |-> url]
    ELSE IF new # NoFile
    THEN [urls |-> urls \cup {ObjectUrl(slot, new)}, url |-> ObjectUrl(slot, new)]
    ELSE [urls |-> urls, url |-> NoUrl]

\* useEffect(() => { if (image) { url = createObjectURL(image); setUrl(url);
\* return () => revokeObjectURL(url) } else setUrl(null) }, [image]) across a
\* render in which the dependency went from old to new: nothing when it is the
\* same object, else the cleanup of the last run, then the new run.
useEffectUrl(slot, urls, url, old, new) ==
    IF new = old THEN [urls |-> urls, url |-> url]
    ELSE LET cleaned == IF old # NoFile THEN urls \ {ObjectUrl(slot, old)} ELSE urls
         IN  IF new # NoFile
             THEN [urls |-> cleaned \cup {ObjectUrl(slot, new)},
                   url |-> ObjectUrl(slot, new)]
             ELSE [urls |-> cleaned, url |-> NoUrl]

\* The two effects after the render that a step causes; neither runs when both
\* dependencies are the objects they were.
useEffects ==
    IF currentImage' = currentImage /\ originalImage' = originalImage
    THEN UNCHANGED <<objectUrls, currentImageUrl, originalImageUrl>>
    ELSE LET cur == useEffectUrl("current", objectUrls, currentImageUrl,
                                 currentImage, currentImage')
             org == useEffectUrl("original", cur.urls, originalImageUrl,
                                 originalImage, originalImage')
         IN  /\ objectUrls' = org.urls
             /\ currentImageUrl' = cur.url
             /\ originalImageUrl' = org.url

\* The two effects after the first render.
mounted ==
    LET cur == useEffectUrl("current", {}, NoUrl, NoFile, currentImage)
        org == useEffectUrl("original", cur.urls, NoUrl, NoFile, originalImage)
    IN  [urls |-> org.urls, current |-> cur.url, original |-> org.url]

canUndo == historyIndex > 0

\* canRedo with the last index taken for the length.
canRedo_OffByOne == historyIndex < Len(history)

canRedo == historyIndex < Len(history) - 1

\* Array.prototype.slice(0, n) for n >= 0.
slice0(h, n) == SubSeq(h, 1, Min(n, Len(h)))

\* Variants of addImageToHistory with a slip in them, used to test the properties.
addImageToHistory_IndexPastEnd(h, i, newImageFile) ==
    LET newHistory == Append(slice0(h, i + 1), newImageFile)
    IN  [history |-> newHistory, historyIndex |-> Len(newHistory)]

addImageToHistory_NoTruncate(h, i, newImageFile) ==
    LET newHistory == Append(h, newImageFile)
    IN  [history |-> newHistory, historyIndex |-> Len(newHistory) - 1]

addImageToHistory_KeepsRedoBranch(h, i, newImageFile) ==
    LET newHistory == slice0(h, i + 1) \o <<newImageFile>> \o SubSeq(h, i + 2, Len(h))
    IN  [history |-> newHistory, historyIndex |-> i + 1]

addImageToHistory_DropsOriginal(h, i, newImageFile) ==
    LET newHistory == Append(SubSeq(h, 2, Min(i + 1, Len(h))), newImageFile)
    IN  [history |-> newHistory, historyIndex |-> Len(newHistory) - 1]

addImageToHistory_AfterOriginal(h, i, newImageFile) ==
    LET newHistory == Append(slice0(h, 1), newImageFile)
    IN  [history |-> newHistory, historyIndex |-> Len(newHistory) - 1]

\* addImageToHistory over the history and index its closure captured:
\* the new history and the new index.
addImageToHistory(h, i, newImageFile) ==
    LET newHistory == Append(slice0(h, i + 1), newImageFile)
    IN  [history |-> newHistory, historyIndex |-> Len(newHistory) - 1]

(* --------------------- data URLs and dataURLtoFile -------------------- *)

\* A data URL is a sequence of tokens; "," ":" ";" are tokens of their own.
Tok(s) == IF s = "" THEN <<>> ELSE <<s>>

\* `data:${mimeType};base64,${data}`
DataUrl(mimeType, data) ==
    <<"data", ":">> \o Tok(mimeType) \o <<";", "base64", ",">> \o Tok(data)

\* canvas.toDataURL('image/png'): "data:," for a canvas without pixels.
toDataURL(width, height) ==
    IF width = 0 \/ height = 0 THEN <<"data", ":", ",">>
    ELSE DataUrl("image/png", "iVBORw==")

\* Index of the first token t at or after position i, 0 when there is none.
RECURSIVE IndexOf(_, _, _)
IndexOf(s, t, i) ==
    IF i > Len(s) THEN 0 ELSE IF s[i] = t THEN i ELSE IndexOf(s, t, i + 1)

\* String.prototype.split(',')
RECURSIVE split(_)
split(s) ==
    LET c == IndexOf(s, ",", 1)
    IN  IF c = 0 THEN <<s>>
        ELSE <<SubSeq(s, 1, c - 1)>> \o split(SubSeq(s, c + 1, Len(s)))

\* arr[0].match(/:(.*?);/): the capture group, or no match.
mimeMatch(head) ==
    LET a == IndexOf(head, ":", 1)
        b == IF a = 0 THEN 0 ELSE IndexOf(head, ";", a + 1)
    IN  IF a = 0 \/ b = 0 THEN [matched |-> FALSE, group |-> <<>>]
        ELSE [matched |-> TRUE, group |-> SubSeq(head, a + 1, b - 1)]

\* Payloads atob accepts.
Base64 == {"iVBORw==", "aGk="}

\* dataURLtoFile: whether it returns a File or throws, and what it throws.
dataURLtoFile(dataurl) ==
    LET arr == split(dataurl)
    IN  IF Len(arr) < 2 THEN [ok |-> FALSE, why |-> "InvalidDataUrl"]
        ELSE LET m == mimeMatch(arr[1])
             IN  IF ~m.matched \/ m.group = <<>>
                 THEN [ok |-> FALSE, why |-> "NoMimeType"]
                 ELSE IF \E i \in 1..Len(arr[2]) : arr[2][i] \notin Base64
                 THEN [ok |-> FALSE, why |-> "InvalidCharacter"]
                 ELSE [ok |-> TRUE, why |-> "null"]

(* ---------------- geminiService.ts: handleApiResponse ----------------- *)

NoPart == [present |-> FALSE, mimeType |-> "", data |-> ""]

ImageParts == [present : {TRUE}, mimeType : {"image/png"}, data : {"aGk=", "%"}]

\* What the service promise settles with: a rejection of the call itself, or
\* a GenerateContentResponse.
Responses ==
    [rejected : {TRUE}, blockReason : {FALSE}, part : {NoPart}, finishReason : {"none"}]
    \cup [rejected : {FALSE}, blockReason : BOOLEAN, part : {NoPart} \cup ImageParts,
          finishReason : {"none", "STOP", "SAFETY"}]

\* handleApiResponse with the finish reason looked at before the image part.
handleApiResponse_FinishFirst(response) ==
    IF response.blockReason
    THEN [ok |-> FALSE, why |-> "Blocked", url |-> <<>>]
    ELSE IF response.finishReason \notin {"none", "STOP"}
    THEN [ok |-> FALSE, why |-> "UnexpectedStop", url |-> <<>>]
    ELSE IF response.part.present
    THEN [ok |-> TRUE, why |-> "null",
          url |-> DataUrl(response.part.mimeType, response.part.data)]
    ELSE [ok |-> FALSE, why |-> "NoImageReturned", url |-> <<>>]

handleApiResponse(response) ==
    IF response.blockReason
    THEN [ok |-> FALSE, why |-> "Blocked", url |-> <<>>]
    ELSE IF response.part.present
    THEN [ok |-> TRUE, why |-> "null",
          url |-> DataUrl(response.part.mimeType, response.part.data)]
    ELSE IF response.finishReason \notin {"none", "STOP"}
    THEN [ok |-> FALSE, why |-> "UnexpectedStop", url |-> <<>>]
    ELSE [ok |-> FALSE, why |-> "NoImageReturned", url |-> <<>>]

\* generateEditedImage / generateFilteredImage / generateAdjustedImage as seen
\* by the awaiting handler: the data URL, or the error thrown.
generateImage(response) ==
    IF response.rejected THEN [ok |-> FALSE, why |-> "CallRejected", url |-> <<>>]
    ELSE handleApiResponse(response)

(* --------------------------- what is rendered ------------------------- *)

\* App.tsx:298: without a current image only the start screen is rendered.
EditorShown == currentImage # NoFile

\* The <img ref={imgRef}> is rendered unless the side-by-side view replaces it.
imgRefCurrent == EditorShown /\ ~isSideBySide

\* AdjustmentPanel is mounted (and keeps its state) only in the adjust tab.
PanelMounted(image, tab) == image # NoFile /\ tab = "adjust"

\* selectedPresetPrompt || customPrompt
activePrompt ==
    IF ~selectedPresetPrompt.isNull /\ selectedPresetPrompt.s # <<>>
    THEN selectedPresetPrompt.s ELSE customPrompt

\* The generate button without isLoading in its disabled attribute.
GenerateDisabled_IgnoresLoading == trim(prompt) = <<>> \/ editHotspot = Null

\* disabled attributes
GenerateDisabled == isLoading \/ trim(prompt) = <<>> \/ editHotspot = Null

AdjustApplyDisabled == isLoading \/ trim(activePrompt) = <<>>

\* An undo button that stays enabled while a call is pending.
UndoDisabled_IgnoresLoading == ~canUndo

UndoDisabled == ~canUndo \/ isLoading

RedoDisabled == ~canRedo \/ isLoading

ResetDisabled == isLoading \/ Len(history) < 2

NewImageDisabled == isLoading

\* Tab buttons that stay enabled while a call is pending.
TabDisabled_Never == FALSE

TabDisabled == isLoading

SideBySideDisabled ==
    isLoading \/ Len(history) < 2 \/ activeTab = "retouch" \/ activeTab = "crop"

\* !!completedCrop?.width
isCropping == completedCrop # Null /\ completedCrop.width # 0

\* FilterPanel and CropPanel receive isLoading (and isCropping) and disable
\* their apply buttons with them.
FilterApplyDisabled(filterPrompt) == isLoading \/ trim(filterPrompt) = <<>>

CropApplyDisabled == isLoading \/ ~isCropping

\* {displayHotspot && activeTab === 'retouch' && !isLoading && (<div ...>)}
\* inside the {!isSideBySide && ...} block.
HotspotMarkerShown ==
    /\ EditorShown /\ ~isSideBySide
    /\ displayHotspot # Null /\ activeTab = "retouch" /\ ~isLoading

(* ------------------------------ frames -------------------------------- *)

hist == <<history, historyIndex>>

hotspot == <<editHotspot, displayHotspot>>

crops == <<crop, completedCrop>>

panel == <<selectedPresetPrompt, customPrompt>>

NoMark == [op |-> "none", historyIndex |-> -1, image |-> NoFile, history |-> <<>>]

\* No canvas was drawn.
NoCanvas ==
    [drawn |-> FALSE, width |-> 0, height |-> 0, pixelRatio |-> 0,
     sWidth |-> [n |-> 0, d |-> 1], sHeight |-> [n |-> 0, d |-> 1]]

\* The event and its outcome, and the state that an undo or a reset leaves.
Noted(op, res) ==
    /\ last' = [op |-> op, res |-> res]
    /\ mark' =
         IF res = "ok" /\ op \in {"undo", "reset"}
         THEN [op |-> op, historyIndex |-> historyIndex, image |-> currentImage,
               history |-> history]
         ELSE IF res = "ok" /\ op = "redo" /\ mark.op = "undo"
         THEN [mark EXCEPT !.op = "undoRedo"]
         ELSE IF res = "ok" /\ op = "redo" /\ mark.op = "reset"
         THEN mark
         ELSE NoMark

\* A step that draws no canvas.
Done(op, res) == Noted(op, res) /\ canvas' = NoCanvas

\* The event reaches no handler.
Ignored(op) ==
    /\ Done(op, "disabled")
    /\ UNCHANGED <<hist, prompt, isLoading, error, hotspot, activeTab, crops,
                   isSideBySide, panel, inflight, nextFile, discarded>>

\* A handler that only calls setError and returns.
Invalid(op, why) ==
    /\ error' = Err(why)
    /\ Done(op, "invalid")
    /\ UNCHANGED <<hist, prompt, isLoading, hotspot, activeTab, crops,
                   isSideBySide, panel, inflight, nextFile, discarded>>

\* setIsLoading(true); setError(null); then the awaited service call, which keeps
\* the image, the instruction, the hotspot and the addImageToHistory closure
\* (history, historyIndex) of the render that dispatched it.
Dispatch(kind, instruction) ==
    /\ isLoading' = TRUE
    /\ error' = NoError
    /\ inflight' = Append(inflight,
                          [kind |-> kind, image |-> currentImage,
                           instruction |-> instruction, hotspot |-> editHotspot,
                           history |-> history, historyIndex |-> historyIndex])
    /\ Done(kind, "dispatched")
    /\ UNCHANGED <<hist, prompt, hotspot, activeTab, crops, isSideBySide, panel,
                   nextFile, discarded>>

(* ------------------------------ upload -------------------------------- *)

handleImageUpload(file) ==
    /\ error' = NoError
    /\ history' = <<file>>
    /\ historyIndex' = 0
    /\ editHotspot' = Null
    /\ displayHotspot' = Null
    /\ activeTab' = "retouch"
    /\ crop' = Null
    /\ completedCrop' = Null
    /\ selectedPresetPrompt' = NullStr
    /\ customPrompt' = <<>>
    /\ nextFile' = nextFile + 1
    /\ Done("load", "ok")
    /\ UNCHANGED <<prompt, isLoading, isSideBySide, inflight, discarded>>

\* StartScreen onFileSelect: files && files.length > 0 && handleImageUpload(files[0])
SelectFile(nfiles) ==
    /\ ~EditorShown
    /\ nextFile <= MaxFiles
    /\ IF nfiles > 0 THEN handleImageUpload(nextFile) ELSE Ignored("load")

(* --------------------------- edit requests ---------------------------- *)

\* handleGenerate without its check of editHotspot.
handleGenerate_NoHotspotCheck ==
    IF currentImage = NoFile THEN Invalid("retouch", "NoImage")
    ELSE IF trim(prompt) = <<>> THEN Invalid("retouch", "EmptyPrompt")
    ELSE Dispatch("retouch", prompt)

handleGenerate ==
    IF currentImage = NoFile THEN Invalid("retouch", "NoImage")
    ELSE IF trim(prompt) = <<>> THEN Invalid("retouch", "EmptyPrompt")
    ELSE IF editHotspot = Null THEN Invalid("retouch", "NoHotspot")
    ELSE Dispatch("retouch", prompt)

ClickGenerate ==
    /\ Len(inflight) < MaxInFlight
    /\ IF ~EditorShown \/ activeTab # "retouch" \/ GenerateDisabled
       THEN Ignored("retouch") ELSE handleGenerate

\* handleApplyFilter without its check of currentImage.
handleApplyFilter_NoImageCheck(filterPrompt) == Dispatch("filter", filterPrompt)

handleApplyFilter(filterPrompt) ==
    IF currentImage = NoFile THEN Invalid("filter", "NoImage")
    ELSE Dispatch("filter", filterPrompt)

ClickApplyFilter(filterPrompt) ==
    /\ Len(inflight) < MaxInFlight
    /\ IF ~EditorShown \/ activeTab # "filters" \/ FilterApplyDisabled(filterPrompt)
       THEN Ignored("filter") ELSE handleApplyFilter(filterPrompt)

handleApplyAdjustment(adjustmentPrompt) ==
    IF currentImage = NoFile THEN Invalid("adjust", "NoImage")
    ELSE Dispatch("adjust", adjustmentPrompt)

\* AdjustmentPanel handleApply
handleApply ==
    IF activePrompt # <<>> THEN handleApplyAdjustment(activePrompt)
    ELSE Ignored("adjust")

ClickApplyAdjustment ==
    /\ Len(inflight) < MaxInFlight
    /\ IF ~PanelMounted(currentImage, activeTab) \/ activePrompt = <<>>
          \/ AdjustApplyDisabled
       THEN Ignored("adjust") ELSE handleApply

(* ----------------------- resolution of a call ------------------------- *)

\* The files after the cursor of the displayed history, which a commit leaves
\* behind.
RedoBranch == { history[j] : j \in (historyIndex + 2)..Len(history) }

\* The catch block without the finally block.
catchFinally_NoFinally(kind, why) ==
    /\ error' = Err(why)
    /\ Done(kind, "failed")
    /\ UNCHANGED <<hist, isLoading, hotspot, crops, nextFile, discarded>>

\* catch (err) { setError(...) } finally { setIsLoading(false) }
catchFinally(kind, why) ==
    /\ error' = Err(why)
    /\ isLoading' = FALSE
    /\ Done(kind, "failed")
    /\ UNCHANGED <<hist, hotspot, crops, nextFile, discarded>>

\* The resolution with setIsLoading(false) in the catch block only.
Resolve_StaysLoading(k, response) ==
    LET call == inflight[k]
        got == generateImage(response)
        file == IF got.ok THEN dataURLtoFile(got.url) ELSE [ok |-> FALSE, why |-> got.why]
        new == addImageToHistory(call.history, call.historyIndex, nextFile)
    IN  /\ inflight' = SubSeq(inflight, 1, k - 1) \o SubSeq(inflight, k + 1, Len(inflight))
        /\ IF file.ok
           THEN /\ nextFile <= MaxFiles
                /\ history' = new.history
                /\ historyIndex' = new.historyIndex
                /\ crop' = Null
                /\ completedCrop' = Null
                /\ IF call.kind = "retouch"
                   THEN editHotspot' = Null /\ displayHotspot' = Null
                   ELSE UNCHANGED hotspot
                /\ nextFile' = nextFile + 1
                /\ discarded' = discarded \cup RedoBranch
                /\ Done(call.kind, "commit")
                /\ UNCHANGED <<error, isLoading>>
           ELSE catchFinally(call.kind, file.why)
        /\ UNCHANGED <<prompt, activeTab, isSideBySide, panel>>

\* try { await generate...; dataURLtoFile; addImageToHistory; ... }
\* catch { ... } finally { ... }, for the k-th pending call.
Resolve(k, response) ==
    LET call == inflight[k]
        got == generateImage(response)
        file == IF got.ok THEN dataURLtoFile(got.url) ELSE [ok |-> FALSE, why |-> got.why]
        new == addImageToHistory(call.history, call.historyIndex, nextFile)
    IN  /\ inflight' = SubSeq(inflight, 1, k - 1) \o SubSeq(inflight, k + 1, Len(inflight))
        /\ IF file.ok
           THEN /\ nextFile <= MaxFiles
                /\ history' = new.history
                /\ historyIndex' = new.historyIndex
                /\ crop' = Null
                /\ completedCrop' = Null
                /\ IF call.kind = "retouch"
                   THEN editHotspot' = Null /\ displayHotspot' = Null
                   ELSE UNCHANGED hotspot
                /\ isLoading' = FALSE
                /\ nextFile' = nextFile + 1
                /\ discarded' = discarded \cup RedoBranch
                /\ Done(call.kind, "commit")
                /\ UNCHANGED error
           ELSE catchFinally(call.kind, file.why)
        /\ UNCHANGED <<prompt, activeTab, isSideBySide, panel>>

(* -------------------------------- crop -------------------------------- *)

Crops == { [x |-> 0, y |-> 0, width |-> 2, height |-> 1] }

\* ReactCrop onChange / onComplete
CropChange(c) ==
    /\ imgRefCurrent /\ activeTab = "crop"
    /\ crop' = c
    /\ Done("ui", "cropChange")
    /\ UNCHANGED <<hist, prompt, isLoading, error, hotspot, activeTab, completedCrop,
                   isSideBySide, panel, inflight, nextFile, discarded>>

CropComplete(c) ==
    /\ imgRefCurrent /\ activeTab = "crop"
    /\ completedCrop' = c
    /\ Done("ui", "cropComplete")
    /\ UNCHANGED <<hist, prompt, isLoading, error, hotspot, activeTab, crop,
                   isSideBySide, panel, inflight, nextFile, discarded>>

\* window.devicePixelRatio || 1
pixelRatioOf(devicePixelRatio) == IF devicePixelRatio = 0 THEN 1 ELSE devicePixelRatio

\* The displayed <img> of the crop tab: its layout size and its natural size.
CropImages == { [width |-> 2, height |-> 1, naturalWidth |-> 4, naturalHeight |-> 2] }

\* canvas.width / canvas.height as last assigned, the pixel ratio, and the
\* source rectangle size given to drawImage: completedCrop.width * scaleX and
\* completedCrop.height * scaleY, as fractions over image.width and image.height.
drawCanvas(image, c, pixelRatio) ==
    [drawn |-> TRUE,
     width |-> c.width * pixelRatio,
     height |-> c.height * pixelRatio,
     pixelRatio |-> pixelRatio,
     sWidth |-> [n |-> c.width * image.naturalWidth, d |-> image.width],
     sHeight |-> [n |-> c.height * image.naturalHeight, d |-> image.height]]

handleApplyCrop(image, hasContext, devicePixelRatio) ==
    IF completedCrop = Null \/ ~imgRefCurrent THEN Invalid("crop", "NoSelection")
    ELSE IF ~hasContext THEN Invalid("crop", "NoContext")
    ELSE LET pixelRatio == pixelRatioOf(devicePixelRatio)
             drawing == drawCanvas(image, completedCrop, pixelRatio)
             url == toDataURL(drawing.width, drawing.height)
             file == dataURLtoFile(url)
             new == addImageToHistory(history, historyIndex, nextFile)
         IN  IF ~file.ok
             THEN \* the exception leaves the handler; no state was set
                  /\ Done("crop", "threw")
                  /\ UNCHANGED <<hist, prompt, isLoading, error, hotspot, activeTab,
                                 crops, isSideBySide, panel, inflight, nextFile,
                                 discarded>>
             ELSE /\ nextFile <= MaxFiles
                  /\ history' = new.history
                  /\ historyIndex' = new.historyIndex
                  /\ crop' = Null
                  /\ completedCrop' = Null
                  /\ nextFile' = nextFile + 1
                  /\ discarded' = discarded \cup RedoBranch
                  /\ canvas' = drawing
                  /\ Noted("crop", "commit")
                  /\ UNCHANGED <<prompt, isLoading, error, hotspot, activeTab,
                                 isSideBySide, panel, inflight>>

ClickApplyCrop(image, hasContext, devicePixelRatio) ==
    IF ~EditorShown \/ activeTab # "crop" \/ CropApplyDisabled
    THEN Ignored("crop") ELSE handleApplyCrop(image, hasContext, devicePixelRatio)

(* ------------------- undo, redo, reset, new image --------------------- *)

handleUndo ==
    IF canUndo
    THEN /\ historyIndex' = historyIndex - 1
         /\ editHotspot' = Null
         /\ displayHotspot' = Null
         /\ Done("undo", "ok")
         /\ UNCHANGED <<history, prompt, isLoading, error, activeTab, crops,
                        isSideBySide, panel, inflight, nextFile, discarded>>
    ELSE /\ Done("undo", "noop")
         /\ UNCHANGED <<hist, prompt, isLoading, error, hotspot, activeTab, crops,
                        isSideBySide, panel, inflight, nextFile, discarded>>

ClickUndo == IF ~EditorShown \/ UndoDisabled THEN Ignored("undo") ELSE handleUndo

\* A redo that moves to the newest snapshot.
handleRedo_JumpsToEnd ==
    IF canRedo
    THEN /\ historyIndex' = Len(history) - 1
         /\ editHotspot' = Null
         /\ displayHotspot' = Null
         /\ Done("redo", "ok")
         /\ UNCHANGED <<history, prompt, isLoading, error, activeTab, crops,
                        isSideBySide, panel, inflight, nextFile, discarded>>
    ELSE /\ Done("redo", "noop")
         /\ UNCHANGED <<hist, prompt, isLoading, error, hotspot, activeTab, crops,
                        isSideBySide, panel, inflight, nextFile, discarded>>

handleRedo ==
    IF canRedo
    THEN /\ historyIndex' = historyIndex + 1
         /\ editHotspot' = Null
         /\ displayHotspot' = Null
         /\ Done("redo", "ok")
         /\ UNCHANGED <<history, prompt, isLoading, error, activeTab, crops,
                        isSideBySide, panel, inflight, nextFile, discarded>>
    ELSE /\ Done("redo", "noop")
         /\ UNCHANGED <<hist, prompt, isLoading, error, hotspot, activeTab, crops,
                        isSideBySide, panel, inflight, nextFile, discarded>>

ClickRedo == IF ~EditorShown \/ RedoDisabled THEN Ignored("redo") ELSE handleRedo

\* A reset that erases the edits.
handleReset_Truncates(confirmed) ==
    IF Len(history) > 0 /\ confirmed
    THEN /\ history' = slice0(history, 1)
         /\ historyIndex' = 0
         /\ error' = NoError
         /\ editHotspot' = Null
         /\ displayHotspot' = Null
         /\ crop' = Null
         /\ completedCrop' = Null
         /\ Done("reset", "ok")
         /\ UNCHANGED <<prompt, isLoading, activeTab, isSideBySide, panel,
                        inflight, nextFile, discarded>>
    ELSE /\ Done("reset", "noop")
         /\ UNCHANGED <<hist, prompt, isLoading, error, hotspot, activeTab, crops,
                        isSideBySide, panel, inflight, nextFile, discarded>>

handleReset(confirmed) ==
    IF Len(history) > 0 /\ confirmed
    THEN /\ historyIndex' = 0
         /\ error' = NoError
         /\ editHotspot' = Null
         /\ displayHotspot' = Null
         /\ crop' = Null
         /\ completedCrop' = Null
         /\ Done("reset", "ok")
         /\ UNCHANGED <<history, prompt, isLoading, activeTab, isSideBySide, panel,
                        inflight, nextFile, discarded>>
    ELSE /\ Done("reset", "noop")
         /\ UNCHANGED <<hist, prompt, isLoading, error, hotspot, activeTab, crops,
                        isSideBySide, panel, inflight, nextFile, discarded>>

ClickReset(confirmed) ==
    IF ~EditorShown \/ ResetDisabled THEN Ignored("reset") ELSE handleReset(confirmed)

\* A start-over that forgets setHistory([]).
handleNewImage_KeepsHistory(confirmed) ==
    IF confirmed
    THEN /\ historyIndex' = -1
         /\ error' = NoError
         /\ editHotspot' = Null
         /\ displayHotspot' = Null
         /\ crop' = Null
         /\ completedCrop' = Null
         /\ selectedPresetPrompt' = NullStr
         /\ customPrompt' = <<>>
         /\ Done("startOver", "ok")
         /\ UNCHANGED <<history, prompt, isLoading, activeTab, isSideBySide,
                        inflight, nextFile, discarded>>
    ELSE /\ Done("startOver", "noop")
         /\ UNCHANGED <<hist, prompt, isLoading, error, hotspot, activeTab, crops,
                        isSideBySide, panel, inflight, nextFile, discarded>>

handleNewImage(confirmed) ==
    IF confirmed
    THEN /\ history' = <<>>
         /\ historyIndex' = -1
         /\ error' = NoError
         /\ editHotspot' = Null
         /\ displayHotspot' = Null
         /\ crop' = Null
         /\ completedCrop' = Null
         /\ selectedPresetPrompt' = NullStr
         /\ customPrompt' = <<>>
         /\ Done("startOver", "ok")
         /\ UNCHANGED <<prompt, isLoading, activeTab, isSideBySide, inflight,
                        nextFile, discarded>>
    ELSE /\ Done("startOver", "noop")
         /\ UNCHANGED <<hist, prompt, isLoading, error, hotspot, activeTab, crops,
                        isSideBySide, panel, inflight, nextFile, discarded>>

ClickNewImage(confirmed) ==
    IF ~EditorShown \/ NewImageDisabled
    THEN Ignored("startOver") ELSE handleNewImage(confirmed)

(* ------------------------- hotspot selection -------------------------- *)

\* Math.floor in the place of Math.round.
toNative_Truncates(offset, size, natural) ==
    IF size = 0
    THEN IF offset = 0 \/ natural = 0 THEN NaN ELSE Infinity
    ELSE Num((offset * natural) \div size)

\* Math.round((offset / size) * natural) for offset, size, natural >= 0:
\* a division by zero gives Infinity or NaN, which Math.round returns as is.
toNative(offset, size, natural) ==
    IF size = 0
    THEN IF offset = 0 \/ natural = 0 THEN NaN ELSE Infinity
    ELSE Num((2 * offset * natural + size) \div (2 * size))

\* Pointer events on the displayed image: the offset from the image's corner
\* (clientX - rect.left, clientY - rect.top), the rendered size (rect) and the
\* natural size.
Clicks ==
    [offsetX : {1}, offsetY : {0}, width : {2}, height : {1},
     naturalWidth : {4}, naturalHeight : {2}]

\* handleImageClick without its first line.
handleImageClick_NoGuard(e) ==
    LET x == toNative(e.offsetX, e.width, e.naturalWidth)
        y == toNative(e.offsetY, e.height, e.naturalHeight)
        displayX == Num(e.offsetX)
        displayY == Num(e.offsetY)
    IN  /\ editHotspot' = [x |-> x, y |-> y]
        /\ displayHotspot' = [x |-> displayX, y |-> displayY]
        /\ Done("ui", "click")
        /\ UNCHANGED <<hist, prompt, isLoading, error, activeTab, crops,
                       isSideBySide, panel, inflight, nextFile, discarded>>

handleImageClick(e) ==
    IF activeTab # "retouch" \/ isLoading
    THEN /\ Done("ui", "clickIgnored")
         /\ UNCHANGED <<hist, prompt, isLoading, error, hotspot, activeTab, crops,
                        isSideBySide, panel, inflight, nextFile, discarded>>
    ELSE LET x == toNative(e.offsetX, e.width, e.naturalWidth)
             y == toNative(e.offsetY, e.height, e.naturalHeight)
             displayX == Num(e.offsetX)
             displayY == Num(e.offsetY)
         IN  /\ editHotspot' = [x |-> x, y |-> y]
             /\ displayHotspot' = [x |-> displayX, y |-> displayY]
             /\ Done("ui", "click")
             /\ UNCHANGED <<hist, prompt, isLoading, error, activeTab, crops,
                            isSideBySide, panel, inflight, nextFile, discarded>>

\* The <img onClick={handleImageClick}> is rendered outside the crop tab and the
\* side-by-side view.
ImageClick(e) ==
    /\ imgRefCurrent /\ activeTab # "crop"
    /\ handleImageClick(e)

(* ------------------- tabs, comparison, text inputs -------------------- *)

handleTabChange(tab) ==
    /\ activeTab' = tab
    /\ isSideBySide' = IF isSideBySide /\ (tab = "retouch" \/ tab = "crop")
                       THEN FALSE ELSE isSideBySide
    /\ IF PanelMounted(currentImage, activeTab) /\ PanelMounted(currentImage, tab)
       THEN UNCHANGED panel
       ELSE selectedPresetPrompt' = NullStr /\ customPrompt' = <<>>
    /\ Done("ui", "tab")
    /\ UNCHANGED <<hist, prompt, isLoading, error, hotspot, crops, inflight,
                   nextFile, discarded>>

TabChange(tab) == EditorShown /\ ~TabDisabled /\ handleTabChange(tab)

\* onClick={() => setIsSideBySide(!isSideBySide)}
ToggleSideBySide ==
    /\ EditorShown /\ ~SideBySideDisabled
    /\ isSideBySide' = ~isSideBySide
    /\ Done("ui", "sideBySide")
    /\ UNCHANGED <<hist, prompt, isLoading, error, hotspot, activeTab, crops, panel,
                   inflight, nextFile, discarded>>

\* <textarea onChange={(e) => setPrompt(e.target.value)} disabled={isLoading}>
TypePrompt(text) ==
    /\ EditorShown /\ activeTab = "retouch" /\ ~isLoading
    /\ prompt' = text
    /\ Done("ui", "prompt")
    /\ UNCHANGED <<hist, isLoading, error, hotspot, activeTab, crops, isSideBySide,
                   panel, inflight, nextFile, discarded>>

\* AdjustmentPanel handlePresetClick / handleCustomChange
handlePresetClick(presetPrompt) ==
    /\ PanelMounted(currentImage, activeTab) /\ ~isLoading
    /\ selectedPresetPrompt' = Str(presetPrompt)
    /\ customPrompt' = <<>>
    /\ Done("ui", "preset")
    /\ UNCHANGED <<hist, prompt, isLoading, error, hotspot, activeTab, crops,
                   isSideBySide, inflight, nextFile, discarded>>

\* handleCustomChange without setSelectedPresetPrompt(null).
handleCustomChange_KeepsPreset(text) ==
    /\ PanelMounted(currentImage, activeTab) /\ ~isLoading
    /\ customPrompt' = text
    /\ Done("ui", "custom")
    /\ UNCHANGED <<hist, prompt, isLoading, error, hotspot, activeTab, crops,
                   isSideBySide, inflight, nextFile, discarded,
                   selectedPresetPrompt>>

handleCustomChange(text) ==
    /\ PanelMounted(currentImage, activeTab) /\ ~isLoading
    /\ customPrompt' = text
    /\ selectedPresetPrompt' = NullStr
    /\ Done("ui", "custom")
    /\ UNCHANGED <<hist, prompt, isLoading, error, hotspot, activeTab, crops,
                   isSideBySide, inflight, nextFile, discarded>>

(* --------------------------- specification ---------------------------- *)

Init ==
    /\ history = <<>>
    /\ historyIndex = -1
    /\ prompt = <<>>
    /\ isLoading = FALSE
    /\ error = NoError
    /\ editHotspot = Null
    /\ displayHotspot = Null
    /\ activeTab = "retouch"
    /\ crop = Null
    /\ completedCrop = Null
    /\ isSideBySide = FALSE
    /\ currentImageUrl = mounted.current
    /\ originalImageUrl = mounted.original
    /\ objectUrls = mounted.urls
    /\ selectedPresetPrompt = NullStr
    /\ customPrompt = <<>>
    /\ inflight = <<>>
    /\ nextFile = 1
    /\ discarded = {}
    /\ last = [op |-> "init", res |-> "ok"]
    /\ mark = NoMark
    /\ canvas = NoCanvas

Next ==
    \/ \E nfiles \in 0..1 : SelectFile(nfiles) /\ useEffects
    \/ ClickGenerate /\ useEffects
    \/ \E filterPrompt \in Prompts : ClickApplyFilter(filterPrompt) /\ useEffects
    \/ ClickApplyAdjustment /\ useEffects
    \/ \E k \in 1..Len(inflight) : \E response \in Responses : Resolve(k, response) /\ useEffects
    \/ \E c \in Crops : CropChange(c) /\ useEffects
    \/ \E c \in Crops : CropComplete(c) /\ useEffects
    \/ \E image \in CropImages : \E hasContext \in BOOLEAN :
          \E devicePixelRatio \in 0..2 :
             ClickApplyCrop(image, hasContext, devicePixelRatio) /\ useEffects
    \/ ClickUndo /\ useEffects
    \/ ClickRedo /\ useEffects
    \/ \E confirmed \in BOOLEAN : ClickReset(confirmed) /\ useEffects
    \/ \E confirmed \in BOOLEAN : ClickNewImage(confirmed) /\ useEffects
    \/ \E e \in Clicks : ImageClick(e) /\ useEffects
    \/ \E tab \in Tabs : TabChange(tab) /\ useEffects
    \/ ToggleSideBySide /\ useEffects
    \/ \E text \in Prompts : TypePrompt(text) /\ useEffects
    \/ handlePresetClick(PresetPrompt) /\ useEffects
    \/ \E text \in Prompts : handleCustomChange(text) /\ useEffects

Spec == Init /\ [][Next]_vars

(* --------------------- the handlers called directly ------------------- *)

\* The request handlers of App, run on an idle page whatever the controls that
\* call them render: handleGenerate, and the onApplyFilter / onApplyAdjustment
\* props with the instruction a panel passes.
CallGenerate == ~isLoading /\ handleGenerate

CallApplyFilter(filterPrompt) == ~isLoading /\ handleApplyFilter(filterPrompt)

CallApplyAdjustment(adjustmentPrompt) ==
    ~isLoading /\ handleApplyAdjustment(adjustmentPrompt)

\* The handlers with the events that change what they read: the image, the
\* prompt, the hotspot, the tab.  The crop selection, the comparison view and the
\* inputs of the adjustment panel, which no request handler reads, stay as they are.
NextCore ==
    \/ \E nfiles \in 0..1 : SelectFile(nfiles) /\ useEffects
    \/ CallGenerate /\ useEffects
    \/ \E filterPrompt \in Prompts : CallApplyFilter(filterPrompt) /\ useEffects
    \/ \E adjustmentPrompt \in Prompts : CallApplyAdjustment(adjustmentPrompt) /\ useEffects
    \/ \E k \in 1..Len(inflight) : \E response \in Responses : Resolve(k, response) /\ useEffects
    \/ ClickUndo /\ useEffects
    \/ ClickRedo /\ useEffects
    \/ \E confirmed \in BOOLEAN : ClickReset(confirmed) /\ useEffects
    \/ \E confirmed \in BOOLEAN : ClickNewImage(confirmed) /\ useEffects
    \/ \E e \in Clicks : ImageClick(e) /\ useEffects
    \/ \E tab \in Tabs : TabChange(tab) /\ useEffects
    \/ \E text \in Prompts : TypePrompt(text) /\ useEffects

SpecCore == Init /\ [][NextCore]_vars

(* ------------------- addImageToHistory on its own --------------------- *)

\* Files of the histories that addImageToHistory is applied to, and the commits
\* made in one run.
MaxStoreFiles == 4

MaxCommits == 2

\* The histories App can hold: distinct files, the empty one included.
StoreHistories ==
    { h \in UNION { [1..n -> 1..MaxStoreFiles] : n \in 0..MaxStoreFiles } :
        \A i, j \in 1..Len(h) : h[i] = h[j] => i = j }

InitCommit ==
    /\ history \in StoreHistories
    /\ historyIndex \in (IF history = <<>> THEN {-1} ELSE 0..(Len(history) - 1))
    /\ prompt = <<>>
    /\ isLoading = FALSE
    /\ error = NoError
    /\ editHotspot = Null
    /\ displayHotspot = Null
    /\ activeTab = "retouch"
    /\ crop = Null
    /\ completedCrop = Null
    /\ isSideBySide = FALSE
    /\ currentImageUrl = mounted.current
    /\ originalImageUrl = mounted.original
    /\ objectUrls = mounted.urls
    /\ selectedPresetPrompt = NullStr
    /\ customPrompt = <<>>
    /\ inflight = <<>>
    /\ nextFile = MaxStoreFiles + 1
    /\ discarded = {}
    /\ last = [op |-> "init", res |-> "ok"]
    /\ mark = NoMark
    /\ canvas = NoCanvas

\* addImageToHistory(newImageFile) run with the history and cursor of the state.
CallAddImageToHistory ==
    LET new == addImageToHistory(history, historyIndex, nextFile)
    IN  /\ nextFile <= MaxStoreFiles + MaxCommits
        /\ history' = new.history
        /\ historyIndex' = new.historyIndex
        /\ crop' = Null
        /\ completedCrop' = Null
        /\ nextFile' = nextFile + 1
        /\ discarded' = discarded \cup RedoBranch
        /\ Done("commit", "commit")
        /\ UNCHANGED <<prompt, isLoading, error, hotspot, activeTab, isSideBySide,
                       panel, inflight>>

NextCommit == CallAddImageToHistory /\ useEffects

SpecCommit == InitCommit /\ [][NextCommit]_vars

(* ---------------------- handleImageClick on its own ------------------- *)

\* Rendered sizes and natural sizes of the image, in pixels.
MaxRendered == 3

MaxNatural == 4

\* One axis of a pointer event: the offset of the pointer inside the rendered
\* image, the rendered size (0 for an image without layout) and the natural size.
Axes ==
    { a \in [offset : 0..MaxRendered, size : 0..MaxRendered, natural : 1..MaxNatural] :
        a.offset <= a.size }

Click(ax, ay) ==
    [offsetX |-> ax.offset, offsetY |-> ay.offset, width |-> ax.size,
     height |-> ay.size, naturalWidth |-> ax.natural, naturalHeight |-> ay.natural]

\* An image of 2000 x 1000 rendered at 1000 x 500, clicked at (500, 250).
ExampleClick ==
    [offsetX |-> 500, offsetY |-> 250, width |-> 1000, height |-> 500,
     naturalWidth |-> 2000, naturalHeight |-> 1000]

\* Every axis horizontally, and every axis vertically, with the other axis that of
\* Clicks; and the example.
ClickInputs ==
    { Click(a, [offset |-> 0, size |-> 1, natural |-> 2]) : a \in Axes }
    \cup { Click([offset |-> 1, size |-> 2, natural |-> 4], a) : a \in Axes }
    \cup { ExampleClick }

\* An image is on display, on the retouch tab.
InitClick ==
    /\ history = <<1>>
    /\ historyIndex = 0
    /\ prompt = <<>>
    /\ isLoading = FALSE
    /\ error = NoError
    /\ editHotspot = Null
    /\ displayHotspot = Null
    /\ activeTab = "retouch"
    /\ crop = Null
    /\ completedCrop = Null
    /\ isSideBySide = FALSE
    /\ currentImageUrl = mounted.current
    /\ originalImageUrl = mounted.original
    /\ objectUrls = mounted.urls
    /\ selectedPresetPrompt = NullStr
    /\ customPrompt = <<>>
    /\ inflight = <<>>
    /\ nextFile = 2
    /\ discarded = {}
    /\ last = [op |-> "load", res |-> "ok"]
    /\ mark = NoMark
    /\ canvas = NoCanvas

NextClick ==
    \/ \E e \in ClickInputs : ImageClick(e) /\ useEffects
    \/ \E tab \in Tabs : TabChange(tab) /\ useEffects

SpecClick == InitClick /\ [][NextClick]_vars

(* ----------------------------- properties ----------------------------- *)

Committed == last.res = "commit"

\* C1: in every reachable state the cursor lies in [-1, length(history) - 1], and
\* it is -1 exactly when the history is empty.
C1_CursorInRange ==
    /\ historyIndex \in -1..(Len(history) - 1)
    /\ (historyIndex = -1) <=> (history = <<>>)

\* A load, two commits and an undo have acted: three snapshots, cursor in the middle.
C1_Witness ==
    /\ last = [op |-> "undo", res |-> "ok"]
    /\ Len(history) = 3
    /\ historyIndex = 1

\* C2: a commit of snapshot s at cursor c >= 0 yields history[0..c] followed by s,
\* with the cursor on the new last index.
C2_CommitTruncatesAndAppends ==
    [][last'.res = "commit" =>
          /\ historyIndex >= 0
          /\ history' = Append(SubSeq(history, 1, historyIndex + 1), nextFile)
          /\ historyIndex' = Len(history') - 1]_vars

\* A commit made at cursor 0 of [1, 2] has replaced snapshot 2 by snapshot 3.
C2_Witness == Committed /\ history = <<1, 3>> /\ historyIndex = 1

\* C3: right after a commit there is nothing to redo, and a snapshot that was
\* after the cursor at a commit is never in the history, hence never current, again.
C3_DiscardedUnreachable ==
    /\ Committed => ~(historyIndex < Len(history) - 1)
    /\ \A f \in discarded : f # currentImage /\ f \notin Range(history)

\* Snapshot 2 was discarded by a commit, and an undo and a redo have acted since.
C3_Witness ==
    /\ discarded = {2}
    /\ last = [op |-> "redo", res |-> "ok"]
    /\ currentImage = 3

\* C4: from a cursor > 0, undo followed immediately by redo restores the cursor
\* and the current snapshot and leaves the history as it was; after the undo the
\* redo is available.
C4_UndoRedoRoundTrip ==
    /\ mark.op = "undo" =>
          /\ mark.historyIndex > 0
          /\ history = mark.history
          /\ historyIndex < Len(history) - 1 /\ ~isLoading
    /\ mark.op = "undoRedo" =>
          /\ historyIndex = mark.historyIndex
          /\ currentImage = mark.image
          /\ history = mark.history

\* An undo from the last of three snapshots and the redo after it have acted.
C4_Witness == mark.op = "undoRedo" /\ mark.historyIndex = 1 /\ Len(history) = 3

\* C5: undo moves the cursor down by one, and only from a cursor > 0; redo moves it
\* up by one, and only from a cursor < length - 1; without the precondition they
\* leave history, cursor and hotspot alone; neither changes the history.
C5_UndoRedoFrame ==
    [][/\ last'.op = "undo" =>
            /\ history' = history
            /\ historyIndex' # historyIndex =>
                  historyIndex > 0 /\ historyIndex' = historyIndex - 1
            /\ historyIndex > 0 /\ ~isLoading => historyIndex' = historyIndex - 1
            /\ ~(historyIndex > 0) =>
                  UNCHANGED <<historyIndex, editHotspot, displayHotspot>>
       /\ last'.op = "redo" =>
            /\ history' = history
            /\ historyIndex' # historyIndex =>
                  historyIndex < Len(history) - 1 /\ historyIndex' = historyIndex + 1
            /\ historyIndex < Len(history) - 1 /\ ~isLoading =>
                  historyIndex' = historyIndex + 1
            /\ ~(historyIndex < Len(history) - 1) =>
                  UNCHANGED <<historyIndex, editHotspot, displayHotspot>>]_vars

\* A redo was asked for on the last snapshot, with a hotspot selected: nothing moved.
C5_Witness ==
    /\ last.op = "redo" /\ last.res # "ok"
    /\ historyIndex = Len(history) - 1
    /\ Len(history) = 2
    /\ editHotspot # Null

\* C6: resetToOriginal puts the cursor on 0 and keeps the history; a second reset
\* changes nothing; while only redo follows it, redo stays available and moves up
\* by one until the cursor is back where it was; a commit at cursor 0 leaves the
\* original followed by the new snapshot.
C6_ResetToOriginal ==
    /\ [][last' = [op |-> "reset", res |-> "ok"] =>
             Len(history) > 0 /\ historyIndex' = 0 /\ history' = history]_vars
    /\ [][last = [op |-> "reset", res |-> "ok"] /\ last' = last =>
             UNCHANGED <<history, historyIndex, prompt, isLoading, error,
                         editHotspot, displayHotspot, activeTab, crop,
                         completedCrop, isSideBySide>>]_vars
    /\ [](mark.op = "reset" =>
             /\ history = mark.history
             /\ historyIndex < mark.historyIndex =>
                   historyIndex < Len(history) - 1 /\ ~isLoading)
    /\ [][mark.op = "reset" /\ last'.op = "redo"
             /\ historyIndex < Len(history) - 1 =>
             historyIndex' = historyIndex + 1]_vars
    /\ [][last'.res = "commit" /\ historyIndex = 0 =>
             history' = <<history[1], nextFile>> /\ historyIndex' = 1]_vars

\* A reset from cursor 2 and two redos have acted: the cursor is back on 2.
C6_Witness ==
    /\ mark.op = "reset" /\ mark.historyIndex = 2
    /\ historyIndex = 2
    /\ last = [op |-> "redo", res |-> "ok"]

\* C7: commit, undo, redo and resetToOriginal keep history[0]; a step that changes
\* or removes the original is a load or a startOver.
C7_OriginalPreserved ==
    [][/\ (last'.op \in {"undo", "redo", "reset"} \/ last'.res = "commit")
            /\ history # <<>> =>
               history' # <<>> /\ history'[1] = history[1]
       /\ (IF history' = <<>> THEN NoFile ELSE history'[1])
            # (IF history = <<>> THEN NoFile ELSE history[1]) =>
               last'.op \in {"load", "startOver"}]_vars

\* A crop has been committed as the third snapshot over original 1.
C7_Witness ==
    /\ last = [op |-> "crop", res |-> "commit"]
    /\ Len(history) = 3
    /\ history[1] = 1

\* C8: load resets the state to the one new snapshot at cursor 0 with hotspot and
\* crop cleared; a confirmed startOver empties the history, cursor -1.
C8_LoadAndStartOver ==
    [][/\ last' = [op |-> "load", res |-> "ok"] =>
            /\ history' = <<nextFile>>
            /\ historyIndex' = 0
            /\ editHotspot' = Null /\ displayHotspot' = Null
            /\ crop' = Null /\ completedCrop' = Null
       /\ last' = [op |-> "startOver", res |-> "ok"] =>
            history' = <<>> /\ historyIndex' = -1]_vars

\* A second image was loaded after an edit of the first and a startOver.
C8_Witness == last = [op |-> "load", res |-> "ok"] /\ history = <<3>>

EditKinds == {"retouch", "filter", "adjust", "crop"}

Resolved == {"commit", "failed"}

\* C9: at most one service call is pending, and isLoading says whether one is; an
\* edit request made while one is pending changes neither the pending call nor the
\* history nor isLoading; isLoading ends only with the resolution of that call.
C9_SingleInFlight ==
    /\ [](Len(inflight) <= 1 /\ (isLoading <=> inflight # <<>>))
    /\ [][isLoading /\ last'.op \in EditKinds /\ last'.res \notin Resolved =>
             UNCHANGED <<inflight, isLoading, history, historyIndex>>]_vars
    /\ [][isLoading /\ ~isLoading' =>
             /\ last'.res \in Resolved
             /\ last'.op = inflight[1].kind
             /\ Len(inflight) = 1 /\ inflight' = <<>>]_vars

\* A retouch was asked for while a retouch call was pending.
C9_Witness ==
    /\ isLoading
    /\ last = [op |-> "retouch", res |-> "disabled"]
    /\ Len(inflight) = 1 /\ inflight[1].kind = "retouch"

FailureReasons ==
    {"CallRejected", "Blocked", "UnexpectedStop", "NoImageReturned", "InvalidCharacter"}

\* C10: on every failure of an edit request, history and cursor stay as they were,
\* the reason is in error, and isLoading is off with no call pending; after a
\* failed retouch the generate button is enabled again.
C10_FailureLeavesHistory ==
    [][last'.res = "failed" =>
          /\ history' = history /\ historyIndex' = historyIndex
          /\ ~error'.isNull /\ error'.why \in FailureReasons
          /\ ~isLoading' /\ inflight' = <<>>
          /\ last'.op = "retouch" =>
                trim(prompt') # <<>> /\ editHotspot' # Null]_vars

\* A filter call returned a payload that does not decode; two snapshots are kept.
C10_Witness ==
    /\ last = [op |-> "filter", res |-> "failed"]
    /\ error = Err("InvalidCharacter")
    /\ Len(history) = 2 /\ historyIndex = 0

AsyncKinds == {"retouch", "filter", "adjust"}

\* A handler has run on the request: it was turned down or a call went out.
Requested == {"invalid", "dispatched"}

\* C11: a retouch, filter or adjustment request made with no image loaded ends in
\* the validation error for the missing image; no call goes out, isLoading stays
\* off, history and cursor stay as they were; no pending call is without an image.
C11_NoImageRejected ==
    /\ [][(IF historyIndex >= 0 /\ historyIndex < Len(history)
            THEN history[historyIndex + 1] ELSE NoFile) = NoFile
          /\ last'.op \in AsyncKinds /\ last'.res \in Requested =>
             /\ last'.res = "invalid"
             /\ error' = Err("NoImage")
             /\ ~isLoading /\ ~isLoading'
             /\ inflight' = <<>>
             /\ history' = history /\ historyIndex' = historyIndex]_vars
    /\ [](\A k \in 1..Len(inflight) : inflight[k].image # NoFile)

\* After a start-over, with no image loaded, a filter was asked for.
C11_Witness ==
    /\ last = [op |-> "filter", res |-> "invalid"]
    /\ error = Err("NoImage")
    /\ history = <<>> /\ historyIndex = -1
    /\ nextFile > 1

\* C12: a request of a kind that needs an instruction (retouch, filter,
\* adjustment) whose instruction is empty or only white space is turned down: no
\* service call goes out for it, so no pending call carries such an instruction.
C12_EmptyInstructionRejected ==
    \A k \in 1..Len(inflight) :
        inflight[k].kind \in AsyncKinds => trim(inflight[k].instruction) # <<>>

ValidationErrors == {"NoImage", "EmptyPrompt", "NoHotspot"}

\* C13: a retouch request made with no hotspot selected is turned down with a
\* validation error (the one for the missing hotspot when image and instruction
\* are there): isLoading stays off, no call goes out, history and cursor stay;
\* a pending retouch call always carries a hotspot.
C13_RetouchNeedsHotspot ==
    /\ [][editHotspot = Null /\ last'.op = "retouch" /\ last'.res \in Requested =>
             /\ last'.res = "invalid"
             /\ ~error'.isNull /\ error'.why \in ValidationErrors
             /\ history # <<>> /\ trim(prompt) # <<>> => error' = Err("NoHotspot")
             /\ ~isLoading /\ ~isLoading'
             /\ inflight' = <<>>
             /\ history' = history /\ historyIndex' = historyIndex]_vars
    /\ [](\A k \in 1..Len(inflight) :
             inflight[k].kind = "retouch" => inflight[k].hotspot # Null)

\* With an image and an instruction but no hotspot, a retouch was asked for.
C13_Witness ==
    /\ last = [op |-> "retouch", res |-> "invalid"]
    /\ error = Err("NoHotspot")
    /\ history # <<>> /\ trim(prompt) # <<>> /\ editHotspot = Null
    /\ ~isLoading /\ inflight = <<>>

\* A response that carries an image part whose payload decodes.
GoodResponse(response) ==
    /\ ~response.rejected /\ ~response.blockReason
    /\ response.part.present /\ response.part.data \in Base64

\* C14: the resolution of a pending call with an image whose payload decodes is
\* never a failure, it is a commit; a commit of a retouch, filter or adjustment ends the one pending call
\* and isLoading, and leaves the history as the prefix up to the cursor followed by
\* the one new snapshot, which is current; the call is gone, so it commits once.
C14_OneCommitPerSuccess ==
    [][/\ last'.res = "failed" /\ inflight # <<>> =>
            \A response \in Responses :
                GoodResponse(response) => ~Resolve(1, response)
       /\ last'.res = "commit" /\ last'.op \in AsyncKinds =>
            /\ isLoading /\ ~isLoading'
            /\ Len(inflight) = 1 /\ inflight' = <<>>
            /\ last'.op = inflight[1].kind
            /\ history' = Append(SubSeq(history, 1, historyIndex + 1), nextFile)
            /\ Len(history') = historyIndex + 2
            /\ historyIndex' = historyIndex + 1
            /\ history'[historyIndex' + 1] = nextFile
            /\ nextFile' = nextFile + 1]_vars

\* An adjustment made after an undo has committed: snapshot 2 gave way to 3.
C14_Witness ==
    /\ last = [op |-> "adjust", res |-> "commit"]
    /\ history = <<1, 3>> /\ historyIndex = 1
    /\ ~isLoading /\ inflight = <<>>

\* C15: right after every operation that changes the cursor (a load, a commit of
\* any kind, an undo, a redo, a reset) the hotspot and the crop selection are
\* both cleared.
C15_CursorChangeClearsTransients ==
    (last.res = "commit" \/ (last.res = "ok" /\ last.op \in {"load", "undo", "redo", "reset"})) =>
        /\ editHotspot = Null /\ displayHotspot = Null
        /\ crop = Null /\ completedCrop = Null

C17_CropNeverInFlight ==
    /\ [][last' = [op |-> "crop", res |-> "commit"] =>
             /\ ~isLoading /\ inflight = <<>>
             /\ ~isLoading' /\ inflight' = <<>>
             /\ history' = Append(SubSeq(history, 1, historyIndex + 1), nextFile)
             /\ historyIndex' = Len(history') - 1]_vars
    /\ [][(isLoading \/ inflight # <<>>) /\ last'.op = "crop" =>
             UNCHANGED <<history, historyIndex, inflight, isLoading>>]_vars
    /\ [](isLoading \/ inflight # <<>> => activeTab # "crop")

\* After an undo a crop was committed in place of snapshot 2.
C17_Witness ==
    /\ last = [op |-> "crop", res |-> "commit"]
    /\ history = <<1, 3>> /\ historyIndex = 1
    /\ discarded = {2}

\* C18: while a call is pending, no step but its resolution changes history or
\* cursor: undo, redo, reset, load and start-over asked for meanwhile leave them
\* alone; so the history and cursor a pending call was dispatched with are the
\* ones displayed until it resolves.
C18_NoMutationInFlight ==
    /\ [][(isLoading \/ inflight # <<>>) /\ last'.res \notin Resolved =>
             history' = history /\ historyIndex' = historyIndex]_vars
    /\ [][(isLoading \/ inflight # <<>>)
             /\ last'.op \in {"undo", "redo", "reset", "load", "startOver"} =>
             /\ last'.res \notin {"ok", "commit"}
             /\ history' = history /\ historyIndex' = historyIndex]_vars
    /\ [](\A k \in 1..Len(inflight) :
             /\ inflight[k].history = history
             /\ inflight[k].historyIndex = historyIndex
             /\ inflight[k].image = history[historyIndex + 1])

\* With the cursor on the second of two snapshots and a call pending, an undo
\* was asked for.
C18_Witness ==
    /\ isLoading /\ Len(inflight) = 1
    /\ last = [op |-> "undo", res |-> "disabled"]
    /\ Len(history) = 2 /\ historyIndex = 1

\* C19: a commit with no image loaded (empty history, cursor -1) fails with an
\* error and creates no session: the history stays empty and the cursor -1.
C19_CommitNeedsSession ==
    [][last'.res = "commit" /\ history = <<>> =>
          /\ ~error'.isNull
          /\ history' = <<>> /\ historyIndex' = -1]_vars

\* r is an integer nearest to offset / size * natural.
Nearest(r, offset, size, natural) ==
    /\ r \in Int
    /\ 2 * size * r - size <= 2 * offset * natural
    /\ 2 * offset * natural <= 2 * size * r + size

\* C20: for a click on the image, on the retouch tab with no call pending, at
\* pointer offset (offsetX, offsetY) on an image of rendered size > 0, the native
\* hotspot is x = round(offsetX / width * naturalWidth) and
\* y = round(offsetY / height * naturalHeight), and the display hotspot is the
\* pointer offset itself; natural 2000 x 1000 rendered at 1000 x 500 and clicked at
\* (500, 250) gives the native hotspot (1000, 500).
C20_HotspotMapping ==
    [][last'.res = "click" =>
          \A e \in ClickInputs :
              e.width > 0 /\ e.height > 0 /\ ImageClick(e) =>
                 /\ activeTab = "retouch" /\ ~isLoading
                 /\ editHotspot'.x.k = "num" /\ editHotspot'.y.k = "num"
                 /\ Nearest(editHotspot'.x.v, e.offsetX, e.width, e.naturalWidth)
                 /\ Nearest(editHotspot'.y.v, e.offsetY, e.height, e.naturalHeight)
                 /\ displayHotspot' = [x |-> Num(e.offsetX), y |-> Num(e.offsetY)]
                 /\ e = ExampleClick =>
                       editHotspot' = [x |-> Num(1000), y |-> Num(500)]]_vars

\* The click of the example has acted.
C20_Witness ==
    /\ last = [op |-> "ui", res |-> "click"]
    /\ editHotspot = [x |-> Num(1000), y |-> Num(500)]
    /\ displayHotspot = [x |-> Num(500), y |-> Num(250)]

\* C21: the raster a crop emits has the size of the crop region in native pixels
\* (the source rectangle drawn from) times the device pixel ratio, whatever the
\* scale between the displayed and the natural image.
C21_CropRasterSize ==
    canvas.drawn =>
        /\ canvas.width * canvas.sWidth.d = canvas.sWidth.n * canvas.pixelRatio
        /\ canvas.height * canvas.sHeight.d = canvas.sHeight.n * canvas.pixelRatio

\* C22: a click on an image whose rendered size is zero in a dimension leaves the
\* hotspot as it was, so the native hotspot stored is never NaN or Infinity.
C22_ZeroSizeIsNoOp ==
    editHotspot # Null => editHotspot.x.k = "num" /\ editHotspot.y.k = "num"

\* The outcome a response must be given: success, or the typed failure.
Outcome(response) ==
    IF response.blockReason THEN "Blocked"
    ELSE IF response.part.present THEN "Success"
    ELSE IF response.finishReason \notin {"none", "STOP"} THEN "UnexpectedStop"
    ELSE "NoImageReturned"

\* C23: a response of the service is classified as exactly one of success,
\* Blocked, UnexpectedStop, NoImageReturned: Blocked when it has a block reason
\* (even with an image part), else success with the data URL of the image part
\* when it has one (even with a finish reason other than STOP), else
\* UnexpectedStop for a finish reason other than STOP, else NoImageReturned; the
\* resolution of the pending call shows that outcome: a typed failure is the error
\* displayed, a success goes on to decoding and commits or fails there.
C23_ResponseClassified ==
    [][last'.res \in Resolved /\ inflight # <<>> =>
          \A response \in Responses :
              ~response.rejected /\ Resolve(1, response) =>
                 LET got == handleApiResponse(response)
                 IN  /\ got.ok <=> (~response.blockReason /\ response.part.present)
                     /\ got.ok =>
                           got.url = <<"data", ":", response.part.mimeType, ";",
                                       "base64", ",", response.part.data>>
                     /\ ~got.ok => got.why = Outcome(response)
                     /\ Outcome(response) = "Success" =>
                           \/ last'.res = "commit"
                           \/ error' = Err("InvalidCharacter")
                     /\ Outcome(response) # "Success" =>
                           last'.res = "failed" /\ error' = Err(Outcome(response))]_vars

\* A filter call was answered without an image and with a finish reason other
\* than STOP.
C23_Witness ==
    /\ last = [op |-> "filter", res |-> "failed"]
    /\ error = Err("UnexpectedStop")
    /\ ~isLoading

\* C24: the object URLs created and not revoked are the one made for the current
\* snapshot and the one made for the original snapshot, and they are the two the
\* page displays: at most two, none when the history is empty; the URL of a
\* snapshot that has stopped being current (or original) is not among them.
C24_ObjectUrlsReleased ==
    /\ Cardinality(objectUrls) <= 2
    /\ history = <<>> =>
          objectUrls = {} /\ currentImageUrl = NoUrl /\ originalImageUrl = NoUrl
    /\ history # <<>> =>
          /\ objectUrls = {currentImageUrl, originalImageUrl}
          /\ currentImageUrl = [slot |-> "current", file |-> history[historyIndex + 1]]
          /\ originalImageUrl = [slot |-> "original", file |-> history[1]]

\* Snapshot 2 was displayed and an undo went back to snapshot 1: the URL made
\* for snapshot 2 is gone.
C24_Witness ==
    /\ last = [op |-> "undo", res |-> "ok"]
    /\ history = <<1, 2>> /\ historyIndex = 0
    /\ objectUrls = {[slot |-> "current", file |-> 1], [slot |-> "original", file |-> 1]}

\* C25: in the adjustment panel, selecting a preset sets it and empties the custom
\* text, typing custom text unsets the preset, so never are both non-empty; an
\* adjustment call goes out with the one that is set, which is the one written
\* last, and none goes out when that instruction is empty.
C25_LastWriterWins ==
    /\ []((selectedPresetPrompt.isNull \/ selectedPresetPrompt.s = <<>>)
           \/ customPrompt = <<>>)
    /\ [][/\ last'.res = "preset" =>
                (/\ ~selectedPresetPrompt'.isNull
                 /\ selectedPresetPrompt'.s # <<>>
                 /\ customPrompt' = <<>>)
          /\ last'.res = "custom" => selectedPresetPrompt'.isNull
          /\ last'.op = "adjust" /\ last'.res \in Requested =>
                (/\ last'.res = "dispatched"
                 /\ inflight'[Len(inflight')].instruction # <<>>
                 /\ inflight'[Len(inflight')].instruction =
                       (IF selectedPresetPrompt.isNull THEN customPrompt
                        ELSE selectedPresetPrompt.s))
          /\ last'.op = "adjust"
                /\ (selectedPresetPrompt.isNull \/ selectedPresetPrompt.s = <<>>)
                /\ customPrompt = <<>> =>
                (last'.res \notin Requested /\ inflight' = inflight)]_vars

\* Custom text was typed in the panel and the adjustment went out with it.
C25_Witness ==
    /\ last = [op |-> "adjust", res |-> "dispatched"]
    /\ selectedPresetPrompt.isNull
    /\ customPrompt = <<"a", " ">>
    /\ inflight[1].instruction = <<"a", " ">>

\* C26: when a retouch, filter or adjustment call resolves with an image, the
\* new snapshot is the last of the history and the cursor is on it, and the
\* snapshot just before it is the image that call was sent with.
C26_CommitFollowsInput ==
    [][last'.op \in AsyncKinds /\ last'.res = "commit" =>
         \E k \in 1..Len(inflight) :
            /\ inflight' = SubSeq(inflight, 1, k - 1)
                              \o SubSeq(inflight, k + 1, Len(inflight))
            /\ last'.op = inflight[k].kind
            /\ inflight[k].image # NoFile
            /\ historyIndex' >= 1
            /\ historyIndex' = Len(history') - 1
            /\ history'[historyIndex'] = inflight[k].image
            /\ currentImage' = nextFile
            /\ currentImage' \notin Range(history)]_vars

\* A call sent with a snapshot that was itself the result of an edit has
\* committed: its result follows that snapshot, not the original.
C26_Witness ==
    /\ last.op \in AsyncKinds /\ last.res = "commit"
    /\ historyIndex = 2
    /\ Len(history) = 3
    /\ history[2] # originalImage

\* C27: side-by-side comparison is on only while the adjust or the filters tab
\* is the active one.
C27_SideBySideOnlyInCompareTabs ==
    isSideBySide => activeTab \in {"adjust", "filters"}

\* C28: a click at a pointer offset inside the rendered image (0 <= offset < size
\* on both axes, rendered and natural sizes > 0), on the retouch tab with no call
\* pending, stores a native hotspot that is a pixel of the image:
\* 0 <= x <= naturalWidth - 1 and 0 <= y <= naturalHeight - 1.
C28_HotspotInsideImage ==
    [][last'.res = "click" =>
          \A e \in ClickInputs :
              (/\ e.width > 0 /\ e.height > 0
               /\ e.naturalWidth > 0 /\ e.naturalHeight > 0
               /\ e.offsetX < e.width /\ e.offsetY < e.height
               /\ ImageClick(e)) =>
                 /\ editHotspot'.x.k = "num" /\ editHotspot'.y.k = "num"
                 /\ 0 <= editHotspot'.x.v /\ editHotspot'.x.v <= e.naturalWidth - 1
                 /\ 0 <= editHotspot'.y.v /\ editHotspot'.y.v <= e.naturalHeight - 1]_vars

=============================================================================
